---- MODULE Spec2Model ----
(***************************************************************************)
(* A model of web_search_mcp.py: the availability detector, the shuffled   *)
(* fallback dispatcher web_search, the two providers' search methods, the  *)
(* snippet limit and the text formatter, and main's startup.               *)
(*                                                                         *)
(* Python strings that the code slices, measures or parses are sequences   *)
(* of one-character strings; lists are sequences.                          *)
(***************************************************************************)
EXTENDS Integers, Sequences, FiniteSets, TLC

\* ------------------------------------------------------------------ bounds
\* Request slots the transport serves at the same time.
NumSlots == 2
\* Longest item list a backend answers with.
MaxItems == 2

Slots == 1..NumSlots

\* ------------------------------------------------------------------ state
VARIABLES
    env,               \* os.environ
    mainPc,            \* main: "init", "running" (inside mcp.run), "exit0", "exit1"
    startup,           \* main's engine check: "pending", "passed", "failed"
    startupNoConfig,   \* whether main's engine check ran with no configuration at all
    blocking,          \* slot whose call occupies the event loop's thread, 0 if none
    everFailed,        \* engines that raised or returned empty since the server runs
    pc,                \* per slot: "idle", "awaiting" (provider.search), "done"
    query,             \* per slot: web_search's query
    count,             \* per slot: web_search's count
    max_snippet_length,\* per slot
    providers_to_try,  \* per slot: the shuffled list
    attempt,           \* per slot: the loop's attempt (1-based)
    calls,             \* per slot: the provider.search calls made, with their outcomes
    response           \* per slot: how web_search ended

vars == <<env, mainPc, startup, startupNoConfig, blocking, everFailed,
          pc, query, count, max_snippet_length, providers_to_try,
          attempt, calls, response>>

slotVars == <<pc, query, count, max_snippet_length, providers_to_try, attempt, calls,
              response>>

\* The state of slot r alone.
Local(r) == <<pc[r], query[r], count[r], max_snippet_length[r], providers_to_try[r],
              attempt[r], calls[r], response[r]>>

\* ------------------------------------------------------- Python primitives
\* os.getenv(name) of an unset variable.
None == <<"None">>

Min(a, b) == IF a < b THEN a ELSE b
Max(a, b) == IF a > b THEN a ELSE b

\* Truthiness of an Optional[str]: None and "" are falsy.
TruthyStr(s) == s # None /\ s # <<>>

\* Truthiness of an int: 0 is falsy.
TruthyInt(n) == n # 0

\* s[:k], with Python's meaning of a negative or too large k.
SlicePrefix(s, k) ==
    IF k >= 0 THEN SubSeq(s, 1, Min(k, Len(s)))
    ELSE SubSeq(s, 1, Max(0, Len(s) + k))

DigitChars == {"0", "1", "2", "3", "4", "5", "6", "7", "8", "9"}

DigitVal(c) ==
    CASE c = "0" -> 0 [] c = "1" -> 1 [] c = "2" -> 2 [] c = "3" -> 3
      [] c = "4" -> 4 [] c = "5" -> 5 [] c = "6" -> 6 [] c = "7" -> 7
      [] c = "8" -> 8 [] c = "9" -> 9

RECURSIVE DigitsVal(_)
DigitsVal(ds) ==
    IF ds = <<>> THEN 0
    ELSE 10 * DigitsVal(SubSeq(ds, 1, Len(ds) - 1)) + DigitVal(ds[Len(ds)])

\* int(s) for an optional sign and ASCII digits: [ok |-> TRUE, val |-> n]; any
\* other string, "" included, has ok = FALSE, where Python raises ValueError.
int(s) ==
    LET signed == s # <<>> /\ s[1] \in {"-", "+"}
        ds     == IF signed THEN Tail(s) ELSE s
        valid  == ds # <<>> /\ \A i \in 1..Len(ds) : ds[i] \in DigitChars
    IN  IF ~valid THEN [ok |-> FALSE, val |-> 0]
        ELSE [ok |-> TRUE,
              val |-> IF signed /\ s[1] = "-" THEN 0 - DigitsVal(ds) ELSE DigitsVal(ds)]

\* os.getenv(name, default) on the environment e.
getenv(e, name, default) == IF e[name] = None THEN default ELSE e[name]

\* All orders random.shuffle can leave a list in.
Shuffles(l) ==
    { p \in [1..Len(l) -> 1..Len(l)] : \A i, j \in 1..Len(l) : i # j => p[i] # p[j] }

Permuted(l, p) == [i \in 1..Len(l) |-> l[p[i]]]

\* ------------------------------------------------------------ environment
EnvNames == {"GOOGLE_API_KEY", "GOOGLE_SEARCH_ENGINE_ID", "OLLAMA_API_KEY",
             "MAX_SNIPPET_LENGTH"}

\* Values a credential variable takes: unset, empty, non-empty.
KeyValues == {None, <<>>, <<"k">>}

\* Values MAX_SNIPPET_LENGTH takes: unset, not a number, and numbers below, at
\* and above the snippet lengths of the backends' items.
LengthValues == {None, <<"a", "b", "c">>, <<"-", "1">>, <<"0">>, <<"2">>, <<"3">>, <<"4">>}

EnvValues(name) == IF name = "MAX_SNIPPET_LENGTH" THEN LengthValues ELSE KeyValues

Environments == { e \in [EnvNames -> KeyValues \cup LengthValues] :
                    \A n \in EnvNames : e[n] \in EnvValues(n) }

\* "No configuration present at all".
NoConfiguration(e) ==
    /\ e["GOOGLE_API_KEY"] = None
    /\ e["GOOGLE_SEARCH_ENGINE_ID"] = None
    /\ e["OLLAMA_API_KEY"] = None

\* -------------------------------------------------------------- providers
GoogleSearchProvider(api_key, search_engine_id) ==
    [class |-> "GoogleSearchProvider", api_key |-> api_key,
     search_engine_id |-> search_engine_id]

\* An OllamaSearchProvider has no search_engine_id; the field is None.
OllamaSearchProvider(api_key) ==
    [class |-> "OllamaSearchProvider", api_key |-> api_key,
     search_engine_id |-> None]

\* engine_name, as web_search computes it from the provider's class.
EngineName(provider) ==
    IF provider.class = "GoogleSearchProvider" THEN "Google" ELSE "Ollama"

\* Mutant: the Ollama provider is appended only with a non-empty OLLAMA_API_KEY.
OllamaIncluded_KeyRequired(ollama_api_key) == TruthyStr(ollama_api_key)

\* The condition under which the Ollama provider is appended.
OllamaIncluded(ollama_api_key) == TruthyStr(ollama_api_key) \/ TRUE

\* Mutant: one of the two Google variables is enough.
GoogleIncluded_Either(google_api_key, google_search_engine_id) ==
    TruthyStr(google_api_key) \/ TruthyStr(google_search_engine_id)

\* The condition under which the Google provider is appended.
GoogleIncluded(google_api_key, google_search_engine_id) ==
    TruthyStr(google_api_key) /\ TruthyStr(google_search_engine_id)

detect_available_engines(e) ==
    LET google_api_key          == getenv(e, "GOOGLE_API_KEY", None)
        google_search_engine_id == getenv(e, "GOOGLE_SEARCH_ENGINE_ID", None)
        ollama_api_key          == getenv(e, "OLLAMA_API_KEY", None)
        google == IF GoogleIncluded(google_api_key, google_search_engine_id)
                  THEN <<GoogleSearchProvider(google_api_key, google_search_engine_id)>>
                  ELSE <<>>
        ollama == IF OllamaIncluded(ollama_api_key)
                  THEN <<OllamaSearchProvider(ollama_api_key)>>
                  ELSE <<>>
    IN  google \o ollama

\* Mutant: a circuit breaker, engines that failed before are left out.
get_available_search_providers_Breaker(e) ==
    LET kept == SelectSeq(detect_available_engines(e),
                          LAMBDA p : EngineName(p) \notin everFailed)
    IN  [raised |-> kept = <<>>, engines |-> kept]

\* raised = TRUE where the function raises "No search engines configured".
get_available_search_providers(e) ==
    LET available_engines == detect_available_engines(e)
    IN  [raised |-> available_engines = <<>>, engines |-> available_engines]

\* max_snippet_length, as web_search reads it (default "512", 512 on ValueError).
DefaultSnippetLength == 512

ParseMaxSnippetLength(e) ==
    LET parsed == int(getenv(e, "MAX_SNIPPET_LENGTH", <<"5", "1", "2">>))
    IN  IF parsed.ok THEN parsed.val ELSE DefaultSnippetLength

\* --------------------------------------------------------------- backends
Alphabet == <<"a", "b", "c", "d", "e", "f">>
Text(n) == SubSeq(Alphabet, 1, n)

\* Snippet lengths of the items the backends hold, item by item.
GoogleSnippetLens == <<5, 0, 3, 6>>
OllamaSnippetLens == <<4, 2, 6, 1>>

\* Item i of the Google API's "items" array.
GoogleItem(i) ==
    [link |-> "https://g/" \o ToString(i), title |-> "G" \o ToString(i),
     snippet |-> Text(GoogleSnippetLens[((i - 1) % 4) + 1])]

\* Item i of the Ollama response's "results".
OllamaItem(i) ==
    [url |-> "https://o/" \o ToString(i), title |-> "O" \o ToString(i),
     content |-> Text(OllamaSnippetLens[((i - 1) % 4) + 1])]

\* What a backend can answer one call with: a failure, or a list of its items.
GoogleAnswers ==
    {[ok |-> FALSE, items |-> <<>>]} \cup
    { [ok |-> TRUE, items |-> [i \in 1..n |-> GoogleItem(i)]] : n \in 0..MaxItems }

OllamaAnswers ==
    {[ok |-> FALSE, items |-> <<>>]} \cup
    { [ok |-> TRUE, items |-> [i \in 1..n |-> OllamaItem(i)]] : n \in 0..MaxItems }

Answers(provider) ==
    IF provider.class = "GoogleSearchProvider" THEN GoogleAnswers ELSE OllamaAnswers

SearchResult(link, title, snippet) == [link |-> link, title |-> title, snippet |-> snippet]

\* The request parameter that carries the count to the backend.
GoogleNum(cnt) == Min(cnt, 10)
OllamaMaxResults(cnt) == cnt

SentCount(provider, cnt) ==
    IF provider.class = "GoogleSearchProvider" THEN GoogleNum(cnt)
    ELSE OllamaMaxResults(cnt)

\* The loop over data["items"]: link, title, snippet of each item.
GoogleParse(items) ==
    [i \in 1..Len(items) |-> SearchResult(items[i].link, items[i].title, items[i].snippet)]

\* The loop over result.results: url -> link, title -> title, content -> snippet.
OllamaParse(items) ==
    [i \in 1..Len(items) |-> SearchResult(items[i].url, items[i].title, items[i].content)]

Parse(provider, items) ==
    IF provider.class = "GoogleSearchProvider" THEN GoogleParse(items)
    ELSE OllamaParse(items)

\* results[:count] at the end of both search methods.
TruncateToCount(results, cnt) == SlicePrefix(results, cnt)

\* GoogleSearchProvider.search: the parsed items, cut to count; any failure is
\* re-raised as Exception.
GoogleSearch(answer, cnt) ==
    IF ~answer.ok THEN [raised |-> TRUE, results |-> <<>>]
    ELSE [raised |-> FALSE, results |-> TruncateToCount(GoogleParse(answer.items), cnt)]

\* OllamaSearchProvider.search: the converted items, cut to count; any failure
\* is re-raised as Exception.
OllamaSearch(answer, cnt) ==
    IF ~answer.ok THEN [raised |-> TRUE, results |-> <<>>]
    ELSE [raised |-> FALSE, results |-> TruncateToCount(OllamaParse(answer.items), cnt)]

Search(provider, answer, cnt) ==
    IF provider.class = "GoogleSearchProvider" THEN GoogleSearch(answer, cnt)
    ELSE OllamaSearch(answer, cnt)

\* Mutant: the blocking Ollama client call is made on the event loop's thread.
CallContext_Inline(provider) ==
    IF provider.class = "GoogleSearchProvider" THEN "await" ELSE "inline"

\* Where the provider's backend call runs: the Google call is awaited on the
\* event loop (httpx.AsyncClient), the blocking Ollama client call is handed to
\* a worker thread (asyncio.to_thread).
CallContext(provider) ==
    IF provider.class = "GoogleSearchProvider" THEN "await" ELSE "thread"

\* -------------------------------------------------------------- formatter
Ellipsis == <<".", ".", ".">>

\* The snippet limit applied to one result before formatting.
LimitSnippet(snippet, limit) ==
    IF TruthyStr(snippet) /\ TruthyInt(limit)
       /\ Len(snippet) > limit
    THEN SlicePrefix(snippet, limit - 3) \o Ellipsis
    ELSE snippet

\* The text of a successful answer: the header's query and engine, and one
\* numbered entry per result.
FormatResults(results, q, engine_name, limit) ==
    [kind |-> "results", query |-> q, via |-> engine_name,
     entries |-> [i \in 1..Len(results) |->
                    [index |-> i, title |-> results[i].title,
                     snippet |-> LimitSnippet(results[i].snippet, limit),
                     link |-> results[i].link]]]

\* "No results found for query: <query>. All available search engines were tried."
NoResultsText(q) ==
    [kind |-> "no_results", query |-> q, via |-> "", entries |-> <<>>]

\* web_search ended by an exception instead of a return value.
Propagated(q) ==
    [kind |-> "exception", query |-> q, via |-> "", entries |-> <<>>]

NoResponse == [kind |-> "none", query |-> "", via |-> "", entries |-> <<>>]

\* Mutant: the handler catches ValueError only.
CaughtByAttempt_ValueErrorOnly(exception) == exception \in {"ValueError"}

\* `except Exception` around one provider's attempt: what it catches.
CaughtByAttempt(exception) == exception \in {"Exception"}

\* Mutant: the loop gives up after its first attempt.
HasNextProvider_Never(att, providers) == FALSE

\* The for loop over providers_to_try: is there a provider after this attempt.
HasNextProvider(att, providers) == att < Len(providers)

\* Mutant: a single result is taken for no result.
TruthyList_MoreThanOne(results) == Len(results) > 1

\* `if results:` on the list a provider returned.
TruthyList(results) == results # <<>>

\* ----------------------------------------------------------------- inputs
Queries == {"rust ownership", "tla"}

\* Values of count a caller passes: negative, zero, below and above the
\* backends' list lengths, above Google's maximum of 10.
Counts == {-1, 0, 1, 2, 11}

NoSlots ==
    /\ pc = [r \in Slots |-> "idle"]
    /\ query = [r \in Slots |-> ""]
    /\ count = [r \in Slots |-> 0]
    /\ max_snippet_length = [r \in Slots |-> 0]
    /\ providers_to_try = [r \in Slots |-> <<>>]
    /\ attempt = [r \in Slots |-> 0]
    /\ calls = [r \in Slots |-> <<>>]
    /\ response = [r \in Slots |-> NoResponse]

Init ==
    /\ env \in Environments
    /\ mainPc = "init"
    /\ startup = "pending"
    /\ startupNoConfig = FALSE
    /\ blocking = 0
    /\ everFailed = {}
    /\ NoSlots

\* The environment is changed. Nothing in the program writes os.environ, and
\* web_search reads it only before its first await, so a change while a request
\* is in flight changes nothing for that request: changes are taken between
\* requests.
SetEnv(name, value) ==
    /\ mainPc \in {"init", "running"}
    /\ \A r \in Slots : pc[r] = "idle"
    /\ env[name] # value
    /\ env' = [env EXCEPT ![name] = value]
    /\ UNCHANGED <<mainPc, startup, startupNoConfig, blocking, everFailed, slotVars>>

\* main up to mcp.run: exit 1 if detect_available_engines returns no engine.
MainStartup ==
    /\ mainPc = "init"
    /\ startupNoConfig' = NoConfiguration(env)
    /\ IF detect_available_engines(env) = <<>>
       THEN mainPc' = "exit1" /\ startup' = "failed"
       ELSE mainPc' = "running" /\ startup' = "passed"
    /\ UNCHANGED <<env, blocking, everFailed, slotVars>>

\* The process ends: every request flow ends with it.
Teardown ==
    /\ blocking' = 0
    /\ everFailed' = {}
    /\ pc' = [r \in Slots |-> "idle"]
    /\ query' = [r \in Slots |-> ""]
    /\ count' = [r \in Slots |-> 0]
    /\ max_snippet_length' = [r \in Slots |-> 0]
    /\ providers_to_try' = [r \in Slots |-> <<>>]
    /\ attempt' = [r \in Slots |-> 0]
    /\ calls' = [r \in Slots |-> <<>>]
    /\ response' = [r \in Slots |-> NoResponse]

\* signal_handler: SIGINT or SIGTERM, sys.exit(0).
Signal ==
    /\ mainPc \in {"init", "running"}
    /\ mainPc' = "exit0"
    /\ Teardown
    /\ UNCHANGED <<env, startup, startupNoConfig>>

\* mcp.run raises: main logs the server error and exits 1.
ServerError ==
    /\ mainPc = "running"
    /\ mainPc' = "exit1"
    /\ Teardown
    /\ UNCHANGED <<env, startup, startupNoConfig>>

\* One provider.search call as the request records it.
Call(provider, answer, cnt) ==
    LET outcome == Search(provider, answer, cnt)
    IN  [class   |-> provider.class,
         sent    |-> SentCount(provider, cnt),
         parsed  |-> IF answer.ok THEN Parse(provider, answer.items) ELSE <<>>,
         raised  |-> outcome.raised,
         results |-> outcome.results]

\* The event loop's thread is free for slot r to take a step.
LoopFree(r) == blocking \in {0, r}

\* Who holds the event loop's thread while slot r's call to provider is out.
Holder(r, provider) == IF CallContext(provider) = "inline" THEN r ELSE 0

\* web_search from its start to the first provider.search call.
Start(r, q, c) ==
    /\ mainPc = "running"
    /\ pc[r] = "idle"
    /\ blocking = 0
    /\ query' = [query EXCEPT ![r] = q]
    /\ count' = [count EXCEPT ![r] = c]
    /\ max_snippet_length' = [max_snippet_length EXCEPT ![r] = ParseMaxSnippetLength(env)]
    /\ calls' = [calls EXCEPT ![r] = <<>>]
    /\ LET available_providers == get_available_search_providers(env)
       IN  IF available_providers.raised
           THEN /\ pc' = [pc EXCEPT ![r] = "done"]
                /\ response' = [response EXCEPT ![r] = Propagated(q)]
                /\ providers_to_try' = [providers_to_try EXCEPT ![r] = <<>>]
                /\ attempt' = [attempt EXCEPT ![r] = 0]
                /\ blocking' = blocking
           ELSE \E p \in Shuffles(available_providers.engines) :
                /\ providers_to_try' = [providers_to_try EXCEPT ![r] =
                                          Permuted(available_providers.engines, p)]
                /\ attempt' = [attempt EXCEPT ![r] = 1]
                /\ pc' = [pc EXCEPT ![r] = "awaiting"]
                /\ response' = [response EXCEPT ![r] = NoResponse]
                /\ blocking' = Holder(r, providers_to_try'[r][1])
    /\ UNCHANGED <<env, mainPc, startup, startupNoConfig, everFailed>>

\* The provider.search call of slot r ends with the backend's answer, and
\* web_search runs on to its return or to the next provider.search call.
SearchReturns(r, answer) ==
    /\ mainPc = "running"
    /\ pc[r] = "awaiting"
    /\ LoopFree(r)
    /\ LET provider == providers_to_try[r][attempt[r]]
           call     == Call(provider, answer, count[r])
           caught   == call.raised /\ CaughtByAttempt("Exception")
           answered == ~call.raised /\ TruthyList(call.results)
       IN  /\ answer \in Answers(provider)
           /\ calls' = [calls EXCEPT ![r] = Append(@, call)]
           /\ everFailed' = IF answered THEN everFailed
                            ELSE everFailed \cup {EngineName(provider)}
           /\ IF answered
              THEN /\ response' = [response EXCEPT ![r] =
                         FormatResults(call.results, query[r], EngineName(provider),
                                       max_snippet_length[r])]
                   /\ pc' = [pc EXCEPT ![r] = "done"]
                   /\ attempt' = attempt
                   /\ blocking' = 0
              ELSE IF call.raised /\ ~caught
              THEN /\ response' = [response EXCEPT ![r] = Propagated(query[r])]
                   /\ pc' = [pc EXCEPT ![r] = "done"]
                   /\ attempt' = attempt
                   /\ blocking' = 0
              ELSE IF HasNextProvider(attempt[r], providers_to_try[r])
              THEN /\ attempt' = [attempt EXCEPT ![r] = @ + 1]
                   /\ pc' = pc
                   /\ response' = response
                   /\ blocking' = Holder(r, providers_to_try[r][attempt[r] + 1])
              ELSE /\ response' = [response EXCEPT ![r] = NoResultsText(query[r])]
                   /\ pc' = [pc EXCEPT ![r] = "done"]
                   /\ attempt' = attempt
                   /\ blocking' = 0
    /\ UNCHANGED <<env, mainPc, startup, startupNoConfig, query, count,
                   max_snippet_length, providers_to_try>>

\* The transport sends the tool result; the slot is free for the next request.
Deliver(r) ==
    /\ mainPc = "running"
    /\ pc[r] = "done"
    /\ blocking = 0
    /\ pc' = [pc EXCEPT ![r] = "idle"]
    /\ query' = [query EXCEPT ![r] = ""]
    /\ count' = [count EXCEPT ![r] = 0]
    /\ max_snippet_length' = [max_snippet_length EXCEPT ![r] = 0]
    /\ providers_to_try' = [providers_to_try EXCEPT ![r] = <<>>]
    /\ attempt' = [attempt EXCEPT ![r] = 0]
    /\ calls' = [calls EXCEPT ![r] = <<>>]
    /\ response' = [response EXCEPT ![r] = NoResponse]
    /\ UNCHANGED <<env, mainPc, startup, startupNoConfig, blocking, everFailed>>

\* The steps of the program with requests served in the slots `slots`, callers
\* passing queries from `queries` and counts from `counts`, and
\* MAX_SNIPPET_LENGTH set to values from `lengths`.
NextOn(slots, queries, counts, lengths) ==
    \/ \E name \in EnvNames :
         \E value \in (IF name = "MAX_SNIPPET_LENGTH" THEN lengths ELSE KeyValues) :
           SetEnv(name, value)
    \/ MainStartup
    \/ Signal
    \/ ServerError
    \/ \E r \in slots : \E q \in queries : \E c \in counts : Start(r, q, c)
    \/ \E r \in slots : \E answer \in GoogleAnswers \cup OllamaAnswers : SearchReturns(r, answer)
    \/ \E r \in slots : Deliver(r)

\* One request in flight at a time, every configuration and every count.
Next == NextOn({1}, Queries, Counts, LengthValues)

Spec == Init /\ [][Next]_vars

\* NumSlots requests in flight at a time, one query, count 2 and
\* MAX_SNIPPET_LENGTH unset: the interleavings of the request flows.
InitConcurrent == Init /\ env["MAX_SNIPPET_LENGTH"] = None

NextConcurrent == NextOn(Slots, {"tla"}, {2}, {None})

SpecConcurrent == InitConcurrent /\ [][NextConcurrent]_vars

\* ----------------------------------------------------------------- claims
IsPrefix(a, b) == Len(a) <= Len(b) /\ \A i \in 1..Len(a) : a[i] = b[i]

IsPermutationOf(a, b) ==
    Len(a) = Len(b) /\ \E p \in Shuffles(b) : a = Permuted(b, p)

\* A call that raised or returned an empty sequence.
Failed(call) == call.raised \/ call.results = <<>>

\* The header's provenance label for a provider class.
Label(class) == IF class = "GoogleSearchProvider" THEN "Google" ELSE "Ollama"

\* The calls of slot r follow its shuffled order, one call per position.
CallsFollowOrder(r) ==
    /\ Len(calls[r]) <= Len(providers_to_try[r])
    /\ \A i \in 1..Len(calls[r]) : calls[r][i].class = providers_to_try[r][i].class
    /\ \A i, j \in 1..Len(calls[r]) : i # j => calls[r][i].class # calls[r][j].class

\* C1: a request with a non-empty registry ends by returning a string (the
\* formatted results or the no-results message), whatever the providers do and
\* whatever MAX_SNIPPET_LENGTH holds: no provider failure reaches the caller.
C1_AlwaysReturnsString ==
    \A r \in Slots :
        (pc[r] = "done" /\ providers_to_try[r] # <<>>)
            => response[r].kind \in {"results", "no_results"}

\* A request that met a raising provider under an unparsable MAX_SNIPPET_LENGTH
\* and returned results from the next one.
C1_Witness ==
    /\ pc[1] = "done"
    /\ env["MAX_SNIPPET_LENGTH"] = <<"a", "b", "c">>
    /\ Len(calls[1]) = 2
    /\ calls[1][1].raised
    /\ response[1].kind = "results"

\* C2: web_search stops at the first provider of its order that returns a
\* non-empty sequence: every call before the answering one failed, no call
\* follows it, the text's entries are that call's results in its order, and
\* the header names that provider.
C2_FirstNonEmptyAnswers ==
    \A r \in Slots :
        /\ CallsFollowOrder(r)
        /\ \A i \in 1..(Len(calls[r]) - 1) : Failed(calls[r][i])
        /\ (calls[r] # <<>> /\ ~Failed(calls[r][Len(calls[r])])) => pc[r] = "done"
        /\ response[r].kind = "results" =>
             LET n    == Len(calls[r])
                 last == calls[r][n]
             IN  /\ n >= 1
                 /\ ~Failed(last)
                 /\ response[r].via = Label(last.class)
                 /\ response[r].query = query[r]
                 /\ Len(response[r].entries) = Len(last.results)
                 /\ \A i \in 1..Len(last.results) :
                      /\ response[r].entries[i].index = i
                      /\ response[r].entries[i].link = last.results[i].link
                      /\ response[r].entries[i].title = last.results[i].title

\* The second provider of the order answered after the first one raised.
C2_Witness ==
    /\ pc[1] = "done"
    /\ response[1].kind = "results"
    /\ Len(providers_to_try[1]) = 2
    /\ Len(calls[1]) = 2
    /\ calls[1][1].raised
    /\ Len(response[1].entries) = 2

\* C3: web_search returns the no-results message, as a return value, exactly
\* when every provider of the registry was invoked once and each raised or
\* returned empty; with two providers a failure of the first is followed by a
\* call of the second before the request ends.
C3_NoResultsIffAllFailed ==
    \A r \in Slots :
        pc[r] = "done" =>
            /\ response[r].kind = "no_results" <=>
                 /\ CallsFollowOrder(r)
                 /\ Len(calls[r]) = Len(providers_to_try[r])
                 /\ \A i \in 1..Len(calls[r]) : Failed(calls[r][i])
            /\ response[r].kind = "no_results" => response[r].query = query[r]
            /\ (Len(providers_to_try[r]) >= 2 /\ Failed(calls[r][1])) => Len(calls[r]) >= 2

\* Both providers were tried: the first returned empty, the second raised.
C3_Witness ==
    /\ pc[1] = "done"
    /\ response[1].kind = "no_results"
    /\ Len(calls[1]) = 2
    /\ ~calls[1][1].raised
    /\ calls[1][2].raised

\* C4: a snippet longer than max_snippet_length comes out with length exactly
\* max_snippet_length, as its first max_snippet_length - 3 characters and
\* "..."; a snippet no longer than max_snippet_length comes out unchanged.
C4_SnippetLimit ==
    \A r \in Slots :
        response[r].kind = "results" =>
            \A i \in 1..Len(response[r].entries) :
                LET original == calls[r][Len(calls[r])].results[i].snippet
                    out      == response[r].entries[i].snippet
                    m        == max_snippet_length[r]
                IN  IF Len(original) > m
                    THEN /\ Len(out) = m
                         /\ out = SubSeq(original, 1, m - 3) \o Ellipsis
                    ELSE out = original

\* C6 as stated: with no configuration at all, main's engine check fails and
\* a request ends with the configuration error.
C6_NoConfigurationFails ==
    /\ (startup # "pending" /\ startupNoConfig) => startup = "failed"
    /\ \A r \in Slots :
         (pc[r] = "done" /\ NoConfiguration(env)) => response[r].kind = "exception"

\* C6 amended: with no configuration at all, the registry is the Ollama provider
\* alone (without credential), so main's engine check passes and main goes on
\* to run the server, and a request tries Ollama and returns a string.
C6_NoConfigurationRunsOllama ==
    /\ (startup # "pending" /\ startupNoConfig) => startup = "passed"
    /\ startup = "failed" => mainPc = "exit1"
    /\ \A r \in Slots :
         (pc[r] # "idle" /\ NoConfiguration(env)) =>
             /\ providers_to_try[r] = <<OllamaSearchProvider(None)>>
             /\ pc[r] = "done" => response[r].kind \in {"results", "no_results"}

\* Started with no configuration, the server runs and a request was answered
\* by Ollama.
C6_Witness ==
    /\ startupNoConfig
    /\ mainPc = "running"
    /\ NoConfiguration(env)
    /\ pc[1] = "done"
    /\ response[1].kind = "results"
    /\ response[1].via = "Ollama"

\* A variable is set to a non-empty value.
SetNonEmpty(name) == env[name] # None /\ env[name] # <<>>

NumberOf(class, engines) ==
    Cardinality({ i \in 1..Len(engines) : engines[i].class = class })

\* C7: for every configuration the registry holds exactly one Ollama provider,
\* and a Google provider if and only if GOOGLE_API_KEY and
\* GOOGLE_SEARCH_ENGINE_ID are both set and non-empty; the registry is never
\* empty, and it is what a request shuffles.
C7_RegistryContents ==
    LET registry == detect_available_engines(env)
    IN  /\ NumberOf("OllamaSearchProvider", registry) = 1
        /\ NumberOf("GoogleSearchProvider", registry)
             = (IF SetNonEmpty("GOOGLE_API_KEY") /\ SetNonEmpty("GOOGLE_SEARCH_ENGINE_ID")
                THEN 1 ELSE 0)
        /\ Len(registry) = NumberOf("OllamaSearchProvider", registry)
                             + NumberOf("GoogleSearchProvider", registry)
        /\ registry # <<>>
        /\ \A r \in Slots : pc[r] # "idle" => IsPermutationOf(providers_to_try[r], registry)

\* A request runs on a registry of both providers while OLLAMA_API_KEY is empty.
C7_Witness ==
    /\ SetNonEmpty("GOOGLE_API_KEY")
    /\ SetNonEmpty("GOOGLE_SEARCH_ENGINE_ID")
    /\ env["OLLAMA_API_KEY"] = <<>>
    /\ pc[1] = "awaiting"
    /\ Len(providers_to_try[1]) = 2

\* C8: what a provider's search returns is a prefix of the parsed list of
\* length at most count, so the text has at most count entries; the Google
\* call sends num = min(count, 10).
C8_TruncatedToCount ==
    \A r \in Slots :
        /\ \A i \in 1..Len(calls[r]) :
             LET call == calls[r][i]
             IN  /\ ~call.raised =>
                      /\ IsPrefix(call.results, call.parsed)
                      /\ Len(call.results) <= count[r]
                 /\ call.class = "GoogleSearchProvider" =>
                      call.sent = (IF count[r] < 10 THEN count[r] ELSE 10)
        /\ response[r].kind = "results" => Len(response[r].entries) <= count[r]

\* C9: every request computes its registry from the environment as it is when
\* the request starts and draws its own order from it, starting at the first
\* provider with no call made, whatever earlier requests met; its calls then
\* follow that order until a provider answers.
C9_FreshRegistryEveryRequest ==
    /\ [][\A r \in Slots :
            (pc[r] = "idle" /\ pc'[r] # "idle") =>
                /\ IsPermutationOf(providers_to_try'[r], detect_available_engines(env))
                /\ attempt'[r] = 1
                /\ calls'[r] = <<>>
                /\ pc'[r] = "awaiting"]_vars
    /\ [](\A r \in Slots :
            pc[r] # "idle" =>
                /\ CallsFollowOrder(r)
                /\ pc[r] = "awaiting" => Len(calls[r]) = attempt[r] - 1
                /\ pc[r] = "done" =>
                     \/ Len(calls[r]) = Len(providers_to_try[r])
                     \/ ~Failed(calls[r][Len(calls[r])]))

\* A request starts by calling an engine that failed in an earlier or
\* concurrent request.
C9_Witness ==
    \E r \in Slots :
        /\ pc[r] = "awaiting"
        /\ calls[r] = <<>>
        /\ \A r2 \in Slots \ {r} : pc[r2] = "idle"
        /\ EngineName(providers_to_try[r][1]) \in everFailed
        /\ Len(providers_to_try[r]) = 2

\* Slot r waits for the Ollama client call it started.
AwaitingOllama(r) ==
    /\ pc[r] = "awaiting"
    /\ providers_to_try[r][attempt[r]].class = "OllamaSearchProvider"

====
